---- MODULE Spec2Model ----
(***************************************************************************)
(* Model of the SCTP simulator (App component, src/unnamed/part_000).      *)
(*                                                                         *)
(* The component keeps three pieces of React state: client, server and     *)
(* packets.  Every handler is a closure of one render: it reads `client`,  *)
(* `server` and `packets` as they were at that render and writes through   *)
(* functional updates (prev => ...), which apply to the current state.     *)
(* The model therefore has the current state (client, server, packets),    *)
(* the values of the last committed render (rendered), which the click     *)
(* handlers read, and for every delivery timer the values of the render    *)
(* in which the packet was sent, which processPacketArrival reads.         *)
(*                                                                         *)
(* sendPacketWithSchedule calls schedulePacketArrival (line 276), whose    *)
(* timer calls processPacketArrival (line 232), the useCallback of line    *)
(* 110.  processPacketArrivalRef.current, handleArrival and                *)
(* schedulePacketArrivalRef.current (lines 292-370) are called by nothing. *)
(*                                                                         *)
(* The user acts through the three buttons and by clicking a packet.  A    *)
(* disabled button calls nothing: INIT HANDSHAKE and SEND SECURE DATA are  *)
(* disabled exactly where their handlers return at once, DISCONNECT is     *)
(* disabled while the rendered client is CLOSED, where handleDisconnect    *)
(* itself has no check.  Packet ids and session ids (Math.random) are      *)
(* taken to be fresh.  Time is abstracted: a timer fires at any moment     *)
(* after it is set, in the order the timers were set.                      *)
(*                                                                         *)
(* The timer's callback calls processPacketArrival from inside a           *)
(* setPackets updater that returns the list it was given (lines 229-235).  *)
(* What `packets` is afterwards React does not define: when the outer      *)
(* updater is run eagerly (React >= 18.2, no update pending) the filter of *)
(* line 112 is queued before the outer update, whose result is the         *)
(* unfiltered list, and the delivered packet stays in `packets`; otherwise *)
(* it is removed.  The React version is not part of the source, so each    *)
(* firing takes either outcome.  For the same reason the render of a click *)
(* takes either of two outcomes: it shows the click's own updates on top   *)
(* of the last render (React 18, where the updates of timers wait for a    *)
(* later render), or everything that is pending (React 19).                *)
(*                                                                         *)
(* generateSecurePayload (ProtocolLog.tsx:163-176) returns at once when    *)
(* the build has no API key, and asks a service otherwise.  Without a key  *)
(* handleSendData runs to its end within the click; with a key it resumes  *)
(* later, after anything else that happens in between.  The key is part of *)
(* the build, not of the source: a run has it or has it not.               *)
(***************************************************************************)
EXTENDS Integers, Sequences, FiniteSets, TLC

\* src/unnamed/part_000:9-10
INITIAL_SEQ == 100
INITIAL_SERVER_SEQ == 5000

\* Bound: packets sent in one run (each gets a fresh id and one timer).
MaxPackets == 3

\* Bound: sendData() calls of one run.
MaxSendData == 2

\* sessionId: null in a NodeState, undefined in a Packet.
null == "null"
undefined == "undefined"
\* An omitted overrideSeq / overrideAck argument.
NoOverride == -1

\* The session ids Math.random produces, taken to be pairwise different.
SessionIds == <<"SES-1", "SES-2", "SES-3", "SES-4", "SES-5", "SES-6">>

PacketIds == 1..MaxPackets

\* What generateSecurePayload() resolves to without an API key.
MockPayload == "Mock Secure Data Payload"

\* What generateSecurePayload() resolves to with an API key: on a failed
\* request, on an empty answer, and a text of the service.
ServicePayloads == {"0xCAFEBABE", "0xDEADBEEF", "0x4A"}

\* Mutant of SeqConsuming: a FIN does not advance seq.
SeqConsuming_WithoutFin == {"SYN", "DATA", "SYN-ACK"}

SeqConsuming == {"SYN", "FIN", "DATA", "SYN-ACK"}

----------------------------------------------------------------------------
VARIABLES
    client,         \* NodeState of the client (current React state)
    server,         \* NodeState of the server (current React state)
    packets,        \* Packet[] in flight (current React state)
    timers,         \* pending setTimeout(LATENCY_MS) callbacks, oldest first
    rendered,       \* client, server, packets of the last committed render
    nextId,         \* next packet id
    nextSession,    \* index of the next session id
    awaiting,       \* handleSendData calls suspended in `await generateSecurePayload()`
    apiKey,         \* whether process.env.API_KEY is set (fixed for the run)
    processed,      \* history: packet id -> times processPacketArrival ran on it
    lossLogged,     \* history: packet id -> loss entries logged for it
    droppedInFlight,\* history: ids a drop removed before their timer fired
    sentSeq,        \* history: packet id -> sender's seq counter when sent
    fired,          \* history: the timers that have fired
    hist            \* history: calls of the user actions (connect and disconnect: those that sent)

progVars == <<client, server, packets, timers, nextId, nextSession, awaiting, apiKey>>
histVars == <<processed, lossLogged, droppedInFlight, sentSeq, fired, hist>>
vars == <<client, server, packets, timers, rendered, nextId, nextSession, awaiting,
          apiKey, processed, lossLogged, droppedInFlight, sentSeq, fired, hist>>

----------------------------------------------------------------------------
\* LogEntry: message and type (id and timestamp are not modelled).
LogEntry(text, flag, a, b, type) ==
    [text |-> text, flag |-> flag, a |-> a, b |-> b, type |-> type]

\* The program state the handlers update.
State ==
    [client |-> client, server |-> server, packets |-> packets,
     timers |-> timers, nextId |-> nextId, nextSession |-> nextSession,
     awaiting |-> awaiting]

\* What a render shows to the closures it creates.
Snapshot(st) ==
    [client |-> st.client, server |-> st.server, packets |-> st.packets]

Ids(pk) == {pk[i].id : i \in 1..Len(pk)}

\* prev.filter(p => p.id !== id)
FilterOut(pk, id) == SelectSeq(pk, LAMBDA p : p.id # id)

Find(pk, id) == CHOOSE p \in {pk[i] : i \in 1..Len(pk)} : p.id = id

\* addLog(role, message, type)
addLog(st, role, entry) ==
    IF role = "CLIENT"
    THEN [st EXCEPT !.client.logs = Append(@, entry)]
    ELSE [st EXCEPT !.server.logs = Append(@, entry)]

\* schedulePacketArrival(packet): the timer keeps the packet and, through
\* processPacketArrival's closure, the client and server of the sending render.
schedulePacketArrival(st, snap, packet) ==
    [st EXCEPT !.timers =
        Append(@, [packet |-> packet, client |-> snap.client, server |-> snap.server])]

\* Mutant of PacketSeq: the packet is numbered with the other counter of the
\* sender.
PacketSeq_FromLastAck(sender, overrideSeq) ==
    IF overrideSeq # NoOverride THEN overrideSeq ELSE sender.lastAckReceived

\* const seq = overrideSeq !== undefined ? overrideSeq : sender.seq
PacketSeq(sender, overrideSeq) ==
    IF overrideSeq # NoOverride THEN overrideSeq ELSE sender.seq

\* sendPacketWithSchedule(from, flag, payload, overrideSeq, overrideAck)
sendPacketWithSchedule(st, snap, from, flag, payload, overrideSeq, overrideAck) ==
    LET sender == IF from = "CLIENT" THEN snap.client ELSE snap.server
        receiverRole == IF from = "CLIENT" THEN "SERVER" ELSE "CLIENT"
        seq == PacketSeq(sender, overrideSeq)
        ack == IF overrideAck # NoOverride THEN overrideAck ELSE sender.lastAckReceived
        newPacket ==
            [id |-> st.nextId, source |-> from, destination |-> receiverRole,
             flag |-> flag, seq |-> seq, ack |-> ack, payload |-> payload,
             sessionId |-> IF sender.sessionId # null THEN sender.sessionId ELSE undefined]
        st1 == [st EXCEPT !.packets = Append(@, newPacket), !.nextId = @ + 1]
        st2 == addLog(st1, from, LogEntry("Sent", flag, seq, ack, "traffic"))
        st3 == IF flag \in SeqConsuming
               THEN IF from = "CLIENT"
                    THEN [st2 EXCEPT !.client.seq = @ + 1]
                    ELSE [st2 EXCEPT !.server.seq = @ + 1]
               ELSE st2
    IN  schedulePacketArrival(st3, snap, newPacket)

\* Mutant of handleDropPacket: the loss is logged on the receiving node.
handleDropPacket_LogsReceiver(st, snap, id) ==
    LET st1 == [st EXCEPT !.packets = FilterOut(@, id)]
    IN  IF id \in Ids(snap.packets)
        THEN LET pkt == Find(snap.packets, id)
             IN  addLog(st1, pkt.destination, LogEntry("Packet lost/dropped in transit!", pkt.flag, 0, 0, "error"))
        ELSE st1

\* handleDropPacket(id): the filter runs on the current packets, the lookup
\* for the log on the packets of the render the handler belongs to.
handleDropPacket(st, snap, id) ==
    LET st1 == [st EXCEPT !.packets = FilterOut(@, id)]
    IN  IF id \in Ids(snap.packets)
        THEN LET pkt == Find(snap.packets, id)
             IN  addLog(st1, pkt.source, LogEntry("Packet lost/dropped in transit!", pkt.flag, 0, 0, "error"))
        ELSE st1

\* Mutant of NextExpected: the packet's own sequence number.
NextExpected_SameSeq(packet) == packet.seq

\* packet.seq + 1, the value processPacketArrival stores in lastAckReceived.
NextExpected(packet) == packet.seq + 1

\* Mutant of synReceived: the session is stored but the server stays as it is.
synReceived_KeepsState(st, packet, newSessionId) ==
    [st EXCEPT !.server.lastAckReceived = NextExpected(packet),
               !.server.sessionId = newSessionId,
               !.nextSession = @ + 1]

\* The setServer of the LISTEN/SYN branch (a session id has been drawn).
synReceived(st, packet, newSessionId) ==
    [st EXCEPT !.server.connectionState = "SYN_RCVD",
               !.server.lastAckReceived = NextExpected(packet),
               !.server.sessionId = newSessionId,
               !.nextSession = @ + 1]

\* Mutant of finReceived: the server goes back to LISTEN.
finReceived_BackToListen(st) ==
    [st EXCEPT !.server.connectionState = "LISTEN", !.server.sessionId = null]

\* Mutant of finReceived: the server closes but keeps its session.
finReceived_KeepsSession(st) ==
    [st EXCEPT !.server.connectionState = "CLOSED"]

\* The setServer of the ESTABLISHED/FIN branch.
finReceived(st) ==
    [st EXCEPT !.server.connectionState = "CLOSED", !.server.sessionId = null]

\* Mutant of synAckReceived: the client is ESTABLISHED but does not take the
\* session of the packet.
synAckReceived_NoSession(st, packet) ==
    [st EXCEPT !.client.connectionState = "ESTABLISHED",
               !.client.lastAckReceived = NextExpected(packet)]

\* The setClient of the SYN_SENT/SYN_ACK branch.
synAckReceived(st, packet) ==
    [st EXCEPT !.client.connectionState = "ESTABLISHED",
               !.client.lastAckReceived = NextExpected(packet),
               !.client.sessionId =
                  IF packet.sessionId # undefined THEN packet.sessionId ELSE null]

\* Mutant of ackMatches: any ack value is accepted.
ackMatches_Any(packet, snapServer) == TRUE

\* packet.ack === server.seq, the guard of the SYN_RCVD/ACK branch.
ackMatches(packet, snapServer) == packet.ack = snapServer.seq

\* processPacketArrival(packet), the useCallback of line 110; snapClient and
\* snapServer are the `client` and `server` of its closure.
processPacketArrival(st, packet, snapClient, snapServer) ==
    LET receiver == IF packet.destination = "CLIENT" THEN snapClient ELSE snapServer
        st1 == [st EXCEPT !.packets = FilterOut(@, packet.id)]
        st2 == addLog(st1, receiver.role, LogEntry("Received", packet.flag, packet.seq, 0, "traffic"))
        newSessionId == SessionIds[st.nextSession]
        afterServer ==
            IF receiver.role # "SERVER" THEN st2
            ELSE IF snapServer.connectionState = "LISTEN"
            THEN IF packet.flag = "SYN"
                 THEN synReceived(
                          addLog(st2, "SERVER", LogEntry("SYN received. Initiating Handshake.", "", 0, 0, "success")),
                          packet, newSessionId)
                 ELSE st2
            ELSE IF snapServer.connectionState = "SYN_RCVD"
            THEN IF packet.flag = "ACK" /\ ackMatches(packet, snapServer)
                 THEN [addLog(st2, "SERVER", LogEntry("ACK received. Connection ESTABLISHED.", "", 0, 0, "success"))
                          EXCEPT !.server.connectionState = "ESTABLISHED"]
                 ELSE st2
            ELSE IF snapServer.connectionState = "ESTABLISHED"
            THEN IF packet.flag = "DATA"
                 THEN [addLog(st2, "SERVER", LogEntry("Data Processed", packet.payload, 0, 0, "success"))
                          EXCEPT !.server.lastAckReceived = NextExpected(packet)]
                 ELSE IF packet.flag = "FIN"
                 THEN finReceived(
                          addLog(st2, "SERVER", LogEntry("FIN received. Closing connection.", "", 0, 0, "warning")))
                 ELSE st2
            ELSE st2
        afterClient ==
            IF receiver.role # "CLIENT" THEN afterServer
            ELSE IF snapClient.connectionState = "SYN_SENT"
            THEN IF packet.flag = "SYN-ACK"
                 THEN synAckReceived(
                          addLog(afterServer, "CLIENT", LogEntry("SYN-ACK received. Session", packet.sessionId, 0, 0, "success")),
                          packet)
                 ELSE afterServer
            ELSE IF snapClient.connectionState = "ESTABLISHED"
            THEN IF packet.flag = "ACK"
                 THEN addLog(afterServer, "CLIENT", LogEntry("Data/Packet Acknowledged by Server.", "", 0, 0, "success"))
                 ELSE afterServer
            ELSE afterServer
    IN  afterClient

\* The setPackets updater of the timer has called processPacketArrival, which
\* took the state to r, and has returned `current`: with kept, the update
\* that returns `current` is applied after the filter of processPacketArrival
\* and `packets` is the list the updater was given; otherwise the filter
\* stands.
updaterReturnsCurrent(st, r, kept) ==
    IF kept THEN [r EXCEPT !.packets = st.packets] ELSE r

\* Mutant of arrivalTimeout: the packet is processed without the check that
\* it is still in flight.
arrivalTimeout_NoExistsCheck(st, t, kept) ==
    updaterReturnsCurrent(st, processPacketArrival(st, t.packet, t.client, t.server), kept)

\* The callback schedulePacketArrival hands to setTimeout: process the packet
\* if it is still in the current in-flight list.
arrivalTimeout(st, t, kept) ==
    IF t.packet.id \in Ids(st.packets)
    THEN updaterReturnsCurrent(st, processPacketArrival(st, t.packet, t.client, t.server), kept)
    ELSE st

\* Mutant of handleConnect: no check of the client's state.
handleConnect_NoGuard(st, snap) ==
    sendPacketWithSchedule(
        [st EXCEPT !.client.connectionState = "SYN_SENT"],
        snap, "CLIENT", "SYN", "", NoOverride, NoOverride)

\* handleConnect()
handleConnect(st, snap) ==
    IF snap.client.connectionState # "CLOSED" THEN st
    ELSE sendPacketWithSchedule(
            [st EXCEPT !.client.connectionState = "SYN_SENT"],
            snap, "CLIENT", "SYN", "", NoOverride, NoOverride)

\* Mutant of handleDisconnect: the client keeps its session.
handleDisconnect_KeepsSession(st, snap) ==
    [sendPacketWithSchedule(st, snap, "CLIENT", "FIN", "", NoOverride, NoOverride)
        EXCEPT !.client.connectionState = "CLOSED"]

\* Mutant of handleDisconnect: nothing is done on a CLOSED client.
handleDisconnect_Guarded(st, snap) ==
    IF snap.client.connectionState = "CLOSED" THEN st
    ELSE [sendPacketWithSchedule(st, snap, "CLIENT", "FIN", "", NoOverride, NoOverride)
             EXCEPT !.client.connectionState = "CLOSED", !.client.sessionId = null]

\* handleDisconnect()
handleDisconnect(st, snap) ==
    LET st1 == sendPacketWithSchedule(st, snap, "CLIENT", "FIN", "", NoOverride, NoOverride)
    IN  [st1 EXCEPT !.client.connectionState = "CLOSED", !.client.sessionId = null]

\* handleSendData() after generateSecurePayload() has resolved with payload.
handleSendDataResumed(st, snap, payload) ==
    sendPacketWithSchedule(st, snap, "CLIENT", "DATA", payload, NoOverride, NoOverride)

\* Mutant of handleSendData: no check of the client's state.
handleSendData_NoGuard(st, snap, key) ==
    IF key THEN [st EXCEPT !.awaiting = Append(@, snap)]
    ELSE handleSendDataResumed(st, snap, MockPayload)

\* handleSendData() as far as it runs within the click.  With an API key it
\* stops at its await; the rest of the call keeps the client and server of
\* the render the click happened in.  Without a key generateSecurePayload()
\* has resolved when it returns and the call runs to its end.
handleSendData(st, snap, key) ==
    IF snap.client.connectionState # "ESTABLISHED" THEN st
    ELSE IF key THEN [st EXCEPT !.awaiting = Append(@, snap)]
    ELSE handleSendDataResumed(st, snap, MockPayload)

----------------------------------------------------------------------------
Init ==
    /\ client = [role |-> "CLIENT", connectionState |-> "CLOSED", seq |-> INITIAL_SEQ,
                 lastAckReceived |-> 0, sessionId |-> null, logs |-> <<>>]
    /\ server = [role |-> "SERVER", connectionState |-> "LISTEN", seq |-> INITIAL_SERVER_SEQ,
                 lastAckReceived |-> 0, sessionId |-> null, logs |-> <<>>]
    /\ packets = <<>>
    /\ timers = <<>>
    /\ rendered = [client |-> client, server |-> server, packets |-> packets]
    /\ nextId = 1
    /\ nextSession = 1
    /\ awaiting = <<>>
    /\ apiKey \in BOOLEAN
    /\ processed = [i \in PacketIds |-> 0]
    /\ lossLogged = [i \in PacketIds |-> 0]
    /\ droppedInFlight = {}
    /\ sentSeq = [i \in PacketIds |-> 0]
    /\ fired = {}
    /\ hist = [connects |-> 0, disconnects |-> 0, drops |-> 0, sendDatas |-> 0]

\* Loss entries ("error") a handler appended to the two logs, from st to st2.
ErrorCount(logs) == Cardinality({i \in 1..Len(logs) : logs[i].type = "error"})

LossEntriesAdded(st, st2) ==
    (ErrorCount(st2.client.logs) + ErrorCount(st2.server.logs))
        - (ErrorCount(st.client.logs) + ErrorCount(st.server.logs))

\* Every packet sent so far: each has a timer, pending or fired.
SentPackets == {timers[i].packet : i \in 1..Len(timers)} \cup {t.packet : t \in fired}

\* The program state becomes st.
Becomes(st) ==
    /\ client' = st.client
    /\ server' = st.server
    /\ packets' = st.packets
    /\ timers' = st.timers
    /\ nextId' = st.nextId
    /\ nextSession' = st.nextSession
    /\ awaiting' = st.awaiting
    /\ apiKey' = apiKey

\* The state as the last committed render shows it.
RenderedState ==
    [State EXCEPT !.client = rendered.client, !.server = rendered.server,
                  !.packets = rendered.packets]

\* A click handler has run.  Its updates apply to the current state, st.
\* React renders the updates of a click at once: either without the updates
\* of timers and continuations that still wait for their render, and then
\* what is rendered is stRendered, the handler's updates applied to the last
\* render, or together with them, and then the render shows st.  A handler
\* that makes no update renders nothing.
BecomesAndRenders(st, stRendered) ==
    /\ Becomes(st)
    /\ IF Snapshot(stRendered) = rendered
       THEN rendered' = rendered
       ELSE rendered' \in {Snapshot(stRendered), Snapshot(st)}

\* Click on INIT HANDSHAKE.
Connect ==
    /\ (rendered.client.connectionState = "CLOSED") => nextId <= MaxPackets
    /\ BecomesAndRenders(handleConnect(State, rendered), handleConnect(RenderedState, rendered))
    /\ IF rendered.client.connectionState = "CLOSED"
       THEN /\ sentSeq' = [sentSeq EXCEPT ![nextId] = client.seq]
            /\ hist' = [hist EXCEPT !.connects = @ + 1]
       ELSE UNCHANGED <<sentSeq, hist>>
    /\ UNCHANGED <<processed, lossLogged, droppedInFlight, fired>>

\* handleDisconnect() is called in the current render.
DisconnectCall ==
    /\ nextId <= MaxPackets
    /\ BecomesAndRenders(handleDisconnect(State, rendered), handleDisconnect(RenderedState, rendered))
    /\ sentSeq' = [sentSeq EXCEPT ![nextId] = client.seq]
    /\ hist' = [hist EXCEPT !.disconnects = @ + 1]
    /\ UNCHANGED <<processed, lossLogged, droppedInFlight, fired>>

\* Click on DISCONNECT: the button is disabled while the rendered client is
\* CLOSED.
Disconnect ==
    /\ rendered.client.connectionState # "CLOSED"
    /\ DisconnectCall

\* handleSendData() is called in the current render (the button SEND SECURE
\* DATA is disabled exactly where the handler returns at once).
SendData ==
    /\ hist.sendDatas < MaxSendData
    /\ (rendered.client.connectionState = "ESTABLISHED")
          => nextId + Len(awaiting) <= MaxPackets
    /\ BecomesAndRenders(handleSendData(State, rendered, apiKey),
                         handleSendData(RenderedState, rendered, apiKey))
    /\ sentSeq' =
          IF handleSendData(State, rendered, apiKey).nextId # nextId
          THEN [sentSeq EXCEPT ![nextId] = client.seq] ELSE sentSeq
    /\ hist' = [hist EXCEPT !.sendDatas = @ + 1]
    /\ UNCHANGED <<processed, lossLogged, droppedInFlight, fired>>

\* The sequence without its i-th element.
RemoveAt(seq, i) == SubSeq(seq, 1, i - 1) \o SubSeq(seq, i + 1, Len(seq))

\* The service answers one of the suspended handleSendData calls, in any
\* order, with any of its results; the continuation is no click handler, so
\* React renders its updates later.  No state reachable from Init enables it
\* (NoPayloadAwaited), so Next leaves it out; NextEstablished has it.
PayloadReady ==
    /\ nextId <= MaxPackets
    /\ \E i \in 1..Len(awaiting), payload \in ServicePayloads :
          Becomes(handleSendDataResumed([State EXCEPT !.awaiting = RemoveAt(@, i)],
                                        awaiting[i], payload))
    /\ sentSeq' = [sentSeq EXCEPT ![nextId] = client.seq]
    /\ UNCHANGED <<rendered, processed, lossLogged, droppedInFlight, fired, hist>>

\* Click on a packet of the network view: the view has an element for each
\* packet of the last render.
DropPacket(id) ==
    /\ id \in Ids(rendered.packets)
    /\ BecomesAndRenders(handleDropPacket(State, rendered, id),
                         handleDropPacket(RenderedState, rendered, id))
    /\ droppedInFlight' =
          IF id \in Ids(packets) /\ id \in {timers[i].packet.id : i \in 1..Len(timers)}
          THEN droppedInFlight \cup {id} ELSE droppedInFlight
    /\ lossLogged' =
          [lossLogged EXCEPT ![id] = @ + LossEntriesAdded(State, handleDropPacket(State, rendered, id))]
    /\ hist' = [hist EXCEPT !.drops = @ + 1]
    /\ UNCHANGED <<processed, sentSeq, fired>>

\* The oldest delivery timer fires (all timers have the delay LATENCY_MS, so
\* they fire in the order they were set).  React renders later.
TimerFires ==
    /\ timers # <<>>
    /\ \E kept \in BOOLEAN :
          LET t == Head(timers)
          IN  /\ Becomes(arrivalTimeout([State EXCEPT !.timers = Tail(@)], t, kept))
              /\ processed' =
                    IF arrivalTimeout(State, t, kept) # State
                    THEN [processed EXCEPT ![t.packet.id] = @ + 1] ELSE processed
              /\ fired' = fired \cup {t}
    /\ UNCHANGED <<rendered, lossLogged, droppedInFlight, sentSeq, hist>>

\* React commits a render of the updates a timer or a continuation made.
Render ==
    /\ rendered # Snapshot(State)
    /\ rendered' = Snapshot(State)
    /\ UNCHANGED progVars
    /\ UNCHANGED histVars

Next ==
    \/ Connect
    \/ Disconnect
    \/ SendData
    \/ \E id \in PacketIds : DropPacket(id)
    \/ TimerFires
    \/ Render

Spec == Init /\ [][Next]_vars

\* A timer that has been set fires (setTimeout, LATENCY_MS later) and React
\* commits the render of a state update; the user is under no obligation.
SpecFair == Spec /\ WF_vars(TimerFires) /\ WF_vars(Render)

----------------------------------------------------------------------------
(***************************************************************************)
(* The arrival handler as the transition function of the protocol: one     *)
(* packet, of any flag and direction, is in flight towards nodes in any    *)
(* connection state, and its timer belongs to the render that shows these  *)
(* nodes.  The runs of Spec deliver only SYN and FIN packets to a server   *)
(* in LISTEN or SYN_RCVD; the rows of the transition tables for the other  *)
(* states and flags are checked here.                                      *)
(***************************************************************************)
Flags == {"NONE", "SYN", "ACK", "SYN-ACK", "FIN", "RST", "DATA"}

\* A NodeState in connectionState cs: a session is held where the handlers
\* leave one.
ArrivalNode(role, cs, seq, lastAck) ==
    [role |-> role, connectionState |-> cs, seq |-> seq, lastAckReceived |-> lastAck,
     sessionId |-> IF cs \in {"SYN_RCVD", "ESTABLISHED"} THEN SessionIds[1] ELSE null,
     logs |-> <<>>]

ArrivalClients ==
    {ArrivalNode("CLIENT", cs, INITIAL_SEQ + 1, 0) : cs \in {"CLOSED", "SYN_SENT"}}
        \cup {ArrivalNode("CLIENT", "ESTABLISHED", INITIAL_SEQ + 1, INITIAL_SERVER_SEQ + 1)}

ArrivalServers ==
    {ArrivalNode("SERVER", cs, seq, INITIAL_SEQ + 1) :
        cs \in {"SYN_RCVD", "ESTABLISHED", "CLOSED"},
        seq \in {INITIAL_SERVER_SEQ, INITIAL_SERVER_SEQ + 1}}
        \cup {ArrivalNode("SERVER", "LISTEN", INITIAL_SERVER_SEQ, 0)}

ArrivalPackets ==
    {[id |-> 1, source |-> src,
      destination |-> IF src = "CLIENT" THEN "SERVER" ELSE "CLIENT",
      flag |-> f, seq |-> sq, ack |-> ak,
      payload |-> IF f = "DATA" THEN MockPayload ELSE "",
      sessionId |-> sid] :
        src \in {"CLIENT", "SERVER"}, f \in Flags,
        sq \in {INITIAL_SEQ + 1, INITIAL_SERVER_SEQ},
        ak \in {0, INITIAL_SERVER_SEQ, INITIAL_SERVER_SEQ + 1},
        sid \in {undefined, SessionIds[1]}}

InitArrival ==
    /\ client \in ArrivalClients
    /\ server \in ArrivalServers
    /\ \E pkt \in ArrivalPackets :
          /\ packets = <<pkt>>
          /\ timers = <<[packet |-> pkt, client |-> client, server |-> server]>>
          /\ sentSeq = [i \in PacketIds |-> IF i = 1 THEN pkt.seq ELSE 0]
    /\ rendered = [client |-> client, server |-> server, packets |-> packets]
    /\ nextId = 2
    /\ nextSession = 2
    /\ awaiting = <<>>
    /\ apiKey \in BOOLEAN
    /\ processed = [i \in PacketIds |-> 0]
    /\ lossLogged = [i \in PacketIds |-> 0]
    /\ droppedInFlight = {}
    /\ fired = {}
    /\ hist = [connects |-> 0, disconnects |-> 0, drops |-> 0, sendDatas |-> 0]

NextArrival ==
    \/ TimerFires
    \/ Render

SpecArrival == InitArrival /\ [][NextArrival]_vars

----------------------------------------------------------------------------
(***************************************************************************)
(* The user actions on an established connection.  The state is the one    *)
(* the handshake is to end in: both nodes ESTABLISHED with the session the *)
(* server allocated, each having sent one sequence-consuming packet and    *)
(* expecting the other's next number.  No run of Spec gets there, so what  *)
(* handleSendData and handleDisconnect do on an ESTABLISHED client, and    *)
(* what the deliveries that follow do, is checked from here.               *)
(***************************************************************************)
InitEstablished ==
    /\ client = [role |-> "CLIENT", connectionState |-> "ESTABLISHED", seq |-> INITIAL_SEQ + 1,
                 lastAckReceived |-> INITIAL_SERVER_SEQ + 1, sessionId |-> SessionIds[1],
                 logs |-> <<>>]
    /\ server = [role |-> "SERVER", connectionState |-> "ESTABLISHED", seq |-> INITIAL_SERVER_SEQ + 1,
                 lastAckReceived |-> INITIAL_SEQ + 1, sessionId |-> SessionIds[1],
                 logs |-> <<>>]
    /\ packets = <<>>
    /\ timers = <<>>
    /\ rendered = [client |-> client, server |-> server, packets |-> packets]
    /\ nextId = 1
    /\ nextSession = 2
    /\ awaiting = <<>>
    /\ apiKey \in BOOLEAN
    /\ processed = [i \in PacketIds |-> 0]
    /\ lossLogged = [i \in PacketIds |-> 0]
    /\ droppedInFlight = {}
    /\ sentSeq = [i \in PacketIds |-> 0]
    /\ fired = {}
    /\ hist = [connects |-> 0, disconnects |-> 0, drops |-> 0, sendDatas |-> 0]

NextEstablished ==
    \/ Connect
    \/ Disconnect
    \/ SendData
    \/ PayloadReady
    \/ \E id \in PacketIds : DropPacket(id)
    \/ TimerFires
    \/ Render

SpecEstablished == InitEstablished /\ [][NextEstablished]_vars

----------------------------------------------------------------------------
(***************************************************************************)
(* handleDisconnect as a function of the render it is called in: the       *)
(* client is in any connection state, CLOSED included, where no click      *)
(* reaches the handler.                                                    *)
(***************************************************************************)
InitDisconnect ==
    /\ client \in ArrivalClients
    /\ server \in ArrivalServers
    /\ packets = <<>>
    /\ timers = <<>>
    /\ rendered = [client |-> client, server |-> server, packets |-> packets]
    /\ nextId = 1
    /\ nextSession = 2
    /\ awaiting = <<>>
    /\ apiKey \in BOOLEAN
    /\ processed = [i \in PacketIds |-> 0]
    /\ lossLogged = [i \in PacketIds |-> 0]
    /\ droppedInFlight = {}
    /\ sentSeq = [i \in PacketIds |-> 0]
    /\ fired = {}
    /\ hist = [connects |-> 0, disconnects |-> 0, drops |-> 0, sendDatas |-> 0]

NextDisconnect ==
    \/ DisconnectCall
    \/ TimerFires
    \/ Render

SpecDisconnect == InitDisconnect /\ [][NextDisconnect]_vars

----------------------------------------------------------------------------
\* Shape of the reachable states: the client never gets past SYN_SENT, the
\* server never past SYN_RCVD, only the client sends, and no handleSendData
\* call ever reaches its await.
NoPayloadAwaited ==
    /\ awaiting = <<>>
    /\ client.connectionState \in {"CLOSED", "SYN_SENT"}
    /\ server.connectionState \in {"LISTEN", "SYN_RCVD"}
    /\ \A i \in 1..Len(packets) : packets[i].source = "CLIENT"
    /\ rendered.client = client

NodeOf(role) == IF role = "CLIENT" THEN client ELSE server

\* The node of a role after the step.
NodeAfter(role) == IF role = "CLIENT" THEN client' ELSE server'

\* The run of Scenario 1 has come to rest: one connect(), no other user
\* action, no drop, the SYN delivered, no timer pending.
HandshakeRunAtRest ==
    /\ hist = [connects |-> 1, disconnects |-> 0, drops |-> 0, sendDatas |-> 0]
    /\ processed[1] = 1
    /\ timers = <<>>
    /\ awaiting = <<>>

\* C1: after connect() and the deliveries that follow it (no drop, no other
\* user action), both nodes are ESTABLISHED and the client's sessionId is the
\* server's non-null sessionId.
C1_HandshakeEstablishes ==
    HandshakeRunAtRest =>
        /\ client.connectionState = "ESTABLISHED"
        /\ server.connectionState = "ESTABLISHED"
        /\ server.sessionId # null
        /\ client.sessionId = server.sessionId

\* C2: Scenario 1 in numbers: connect() puts {SYN, seq=100} in flight; its
\* delivery makes the server SYN_RCVD with lastAckReceived=101 and a sessionId
\* and makes it answer {SYN_ACK, seq=5000, ack=101}; that makes the client
\* ESTABLISHED with lastAckReceived=5001 and makes it answer {ACK, seq=101,
\* ack=5001}; that makes the server ESTABLISHED.
C2_ScenarioOneNumbers ==
    /\ (hist = [connects |-> 1, disconnects |-> 0, drops |-> 0, sendDatas |-> 0] /\ processed[1] = 0)
          => /\ Len(packets) = 1
             /\ packets[1].flag = "SYN"
             /\ packets[1].seq = 100
    /\ HandshakeRunAtRest =>
          /\ server.lastAckReceived = 101
          /\ server.sessionId # null
          /\ server.seq = 5001
          /\ client.connectionState = "ESTABLISHED"
          /\ client.lastAckReceived = 5001
          /\ client.seq = 101
          /\ server.connectionState = "ESTABLISHED"

\* C3: every packet id is processed by the arrival handler at most once, and
\* a packet dropped while in flight is never processed.
C3_DeliveredAtMostOnce ==
    \A id \in PacketIds :
        /\ processed[id] <= 1
        /\ id \in droppedInFlight => processed[id] = 0

\* A packet was dropped in flight and its timer has fired since, and another
\* packet was delivered.
C3_Witness ==
    /\ \E t \in fired : t.packet.id \in droppedInFlight
    /\ \E t \in fired : processed[t.packet.id] = 1

\* C4: a drop of an in-flight packet leaves the receiving node as it is and
\* appends exactly the loss entry to the log of the packet's source; the
\* packet's timer later changes no node; the packet has exactly one loss entry.
C4_DropTouchesOnlySourceLog ==
    /\ [][\A id \in PacketIds :
            (DropPacket(id) /\ id \in Ids(packets)) =>
                LET pkt == Find(packets, id)
                    src == NodeOf(pkt.source)
                IN  /\ NodeAfter(pkt.destination) = NodeOf(pkt.destination)
                    /\ NodeAfter(pkt.source) =
                          [src EXCEPT !.logs = Append(@,
                              LogEntry("Packet lost/dropped in transit!", pkt.flag, 0, 0, "error"))]
                    /\ id \notin Ids(packets')]_vars
    /\ [][(TimerFires /\ timers # <<>> /\ Head(timers).packet.id \in droppedInFlight)
            => UNCHANGED <<client, server, packets>>]_vars
    /\ [](\A id \in droppedInFlight : lossLogged[id] = 1 /\ processed[id] = 0)

\* A packet was dropped in flight, its loss is logged and its timer has fired.
C4_Witness ==
    \E t \in fired :
        /\ t.packet.id \in droppedInFlight
        /\ lossLogged[t.packet.id] = 1
        /\ ErrorCount(NodeOf(t.packet.source).logs) >= 1

\* C5: no packet is both logged as lost and processed by the receiver.
C5_DropOrDeliverNotBoth ==
    \A id \in PacketIds : ~(lossLogged[id] >= 1 /\ processed[id] >= 1)

\* C6: dropPacket(id) for an id that is not in the in-flight set changes
\* neither the in-flight set nor a node nor a log.
C6_DropOfAbsentIdIsNoOp ==
    [][\A id \in PacketIds :
          (DropPacket(id) /\ id \notin Ids(packets))
              => UNCHANGED <<client, server, packets>>]_vars

\* C7: running the delivery step again for a packet whose delivery step has
\* run changes nothing: nodes, logs and in-flight packets stay as they are.
C7_SecondDeliveryIsNoOp ==
    \A t \in fired, kept \in BOOLEAN : arrivalTimeout(State, t, kept) = State

\* The timer that fires delivers its packet, a packet with a
\* sequence-consuming flag.
DeliversConsuming ==
    /\ TimerFires
    /\ timers # <<>>
    /\ Head(timers).packet.id \in Ids(packets)
    /\ Head(timers).packet.flag \in SeqConsuming

\* The transition tables have a row that records packet for a node in this
\* state: SYN at a server in LISTEN, DATA at a server in ESTABLISHED, SYN_ACK
\* at a client in SYN_SENT.
SetsLastAck(node, packet) ==
    \/ node.role = "SERVER" /\ packet.flag = "SYN" /\ node.connectionState = "LISTEN"
    \/ node.role = "SERVER" /\ packet.flag = "DATA" /\ node.connectionState = "ESTABLISHED"
    \/ node.role = "CLIENT" /\ packet.flag = "SYN-ACK" /\ node.connectionState = "SYN_SENT"

\* C10 as stated: after the delivery of any packet with a sequence-consuming
\* flag the receiver's lastAckReceived is the sender's seq at send plus 1.
C10_LastAckAfterAnyDelivery ==
    [][DeliversConsuming =>
          NodeAfter(Head(timers).packet.destination).lastAckReceived
              = sentSeq[Head(timers).packet.id] + 1]_vars

\* C10 amended: after the delivery of a SYN, SYN_ACK or DATA packet to a
\* node that is in the state in which the transition tables record it, the
\* receiver's lastAckReceived is the sender's seq at send plus 1; the
\* delivery of a FIN leaves the receiver's lastAckReceived as it was.
C10_LastAckAfterAcceptedDelivery ==
    [][DeliversConsuming =>
          LET p == Head(timers).packet
          IN  /\ SetsLastAck(NodeOf(p.destination), p)
                    => NodeAfter(p.destination).lastAckReceived = sentSeq[p.id] + 1
              /\ p.flag = "FIN"
                    => NodeAfter(p.destination).lastAckReceived
                          = NodeOf(p.destination).lastAckReceived]_vars

\* The one SYN the server has accepted was delivered to it in LISTEN and set
\* lastAckReceived to the client's seq at send plus 1, and a FIN was delivered
\* after it and left that value.
C10_Witness ==
    /\ nextSession = 2
    /\ \E t \in fired :
          /\ t.packet.flag = "SYN" /\ processed[t.packet.id] = 1
          /\ server.lastAckReceived = sentSeq[t.packet.id] + 1
          /\ \E u \in fired :
                /\ u.packet.flag = "FIN" /\ processed[u.packet.id] = 1
                /\ u.packet.id > t.packet.id

----------------------------------------------------------------------------
\* The packets the step puts in flight: those with a new id.
SentInStep == {p \in {timers'[i].packet : i \in 1..Len(timers')} : p.id >= nextId}

\* The packets of SentInStep that role sends with one of the four flags the
\* claim names.
ConsumingSentBy(role) ==
    {p \in SentInStep : p.source = role /\ p.flag \in {"SYN", "SYN-ACK", "FIN", "DATA"}}

\* C11: the seq of a role never decreases; in every step it grows by the
\* number of SYN, SYN_ACK, FIN and DATA packets the role sends in the step (1
\* per send), so a bare ACK and the reception of a packet leave it unchanged.
C11_SeqAdvancesOnConsumingSends ==
    [][/\ client'.seq = client.seq + Cardinality(ConsumingSentBy("CLIENT"))
       /\ server'.seq = server.seq + Cardinality(ConsumingSentBy("SERVER"))
       /\ Cardinality(SentInStep) <= 1]_vars

\* The client has sent a SYN and a FIN, each taking one number, and the
\* server has received a packet.
C11_Witness ==
    /\ client.seq = INITIAL_SEQ + 2
    /\ \E t \in fired : t.packet.flag = "SYN"
    /\ \E t \in fired : t.packet.flag = "FIN" /\ processed[t.packet.id] = 1
    /\ server.seq = INITIAL_SERVER_SEQ

\* The session ids the server has allocated so far.
Allocated == {SessionIds[i] : i \in 1..(nextSession - 1)}

\* C12: the server holds a sessionId only in SYN_RCVD or ESTABLISHED; the
\* client holds one only in ESTABLISHED, and then one the server allocated;
\* a CLOSED node holds none.
C12_SessionIdOnlyWhileConnected ==
    /\ server.sessionId # null => server.connectionState \in {"SYN_RCVD", "ESTABLISHED"}
    /\ client.sessionId # null =>
          client.connectionState = "ESTABLISHED" /\ client.sessionId \in Allocated
    /\ client.connectionState = "CLOSED" => client.sessionId = null
    /\ server.connectionState = "CLOSED" => server.sessionId = null

\* The server holds a session it allocated and the client has been closed by
\* disconnect().
C12_Witness ==
    /\ server.sessionId \in Allocated
    /\ server.connectionState = "SYN_RCVD"
    /\ hist.disconnects >= 1
    /\ client.connectionState = "CLOSED"

\* C13: connect() on a CLOSED client makes it SYN_SENT, puts exactly one SYN
\* with the client's seq of before in flight and adds 1 to the client's seq;
\* on any other client it changes nothing.
C13_ConnectOnlyFromClosed ==
    [][Connect =>
          IF client.connectionState = "CLOSED"
          THEN /\ client'.connectionState = "SYN_SENT"
               /\ client'.seq = client.seq + 1
               /\ Len(packets') = Len(packets) + 1
               /\ SubSeq(packets', 1, Len(packets)) = packets
               /\ packets'[Len(packets')].flag = "SYN"
               /\ packets'[Len(packets')].seq = client.seq
               /\ packets'[Len(packets')].source = "CLIENT"
               /\ server' = server
          ELSE UNCHANGED <<client, server, packets, timers>>]_vars

\* connect() has run on a CLOSED client and the client, now SYN_SENT, is in a
\* state where connect() is the no-op.
C13_Witness ==
    /\ hist.connects >= 1
    /\ client.connectionState = "SYN_SENT"
    /\ \E i \in 1..Len(packets) : packets[i].flag = "SYN"

----------------------------------------------------------------------------
\* The timer that fires delivers its packet (the packet is still in flight).
Delivers ==
    /\ TimerFires
    /\ timers # <<>>
    /\ Head(timers).packet.id \in Ids(packets)

\* The ESTABLISHED/DATA branch of the arrival handler alone (the row C15 is
\* about; no run of Spec delivers a DATA packet): the server stays
\* ESTABLISHED, stores packet.seq + 1 and keeps its seq, and the handler puts
\* nothing in flight.
DataRecordedWithoutReply ==
    [][(Delivers /\ Head(timers).packet.destination = "SERVER"
            /\ Head(timers).packet.flag = "DATA"
            /\ server.connectionState = "ESTABLISHED")
          => /\ server'.connectionState = "ESTABLISHED"
             /\ server'.lastAckReceived = Head(timers).packet.seq + 1
             /\ server'.seq = server.seq
             /\ SentInStep = {}]_vars

\* C16: the transition a delivery applies is the one the arrival handler
\* computes from the client and server of the moment of delivery.
C16_DeliveryReadsCurrentState ==
    [][Delivers =>
          LET t == Head(timers)
              r == processPacketArrival([State EXCEPT !.timers = Tail(@)],
                                        t.packet, client, server)
          IN  /\ client' = r.client
              /\ server' = r.server]_vars

\* The transition tables have no row for packet arriving at node.
NoRow(node, packet) ==
    IF node.role = "SERVER"
    THEN ~ \/ node.connectionState = "LISTEN" /\ packet.flag = "SYN"
           \/ node.connectionState = "SYN_RCVD" /\ packet.flag = "ACK"
                 /\ packet.ack = node.seq
           \/ node.connectionState = "ESTABLISHED" /\ packet.flag \in {"DATA", "FIN"}
           \/ packet.flag = "RST"
    ELSE ~ \/ node.connectionState = "SYN_SENT" /\ packet.flag = "SYN-ACK"
           \/ node.connectionState = "ESTABLISHED" /\ packet.flag = "ACK"

\* The fields of a node other than its log.
Protocol(node) ==
    <<node.connectionState, node.seq, node.lastAckReceived, node.sessionId>>

\* C17: the delivery of a packet for which the receiver's state has no row
\* leaves the receiver's connectionState, seq, lastAckReceived and sessionId
\* as they are and puts no packet in flight.
C17_UnmatchedDeliveryChangesNothing ==
    [][(Delivers /\ NoRow(NodeOf(Head(timers).packet.destination), Head(timers).packet))
          => /\ Protocol(NodeAfter(Head(timers).packet.destination))
                  = Protocol(NodeOf(Head(timers).packet.destination))
             /\ nextId' = nextId
             /\ Ids(packets') \subseteq Ids(packets)]_vars

\* C19: a delivery to a server in SYN_RCVD makes the server ESTABLISHED
\* exactly if the packet is an ACK whose ack is the server's seq; otherwise
\* the server stays in SYN_RCVD.
C19_AckMustMatchServerSeq ==
    [][(Delivers /\ Head(timers).packet.destination = "SERVER"
            /\ server.connectionState = "SYN_RCVD")
          => IF Head(timers).packet.flag = "ACK" /\ Head(timers).packet.ack = server.seq
             THEN server'.connectionState = "ESTABLISHED"
             ELSE server'.connectionState = "SYN_RCVD"]_vars

\* An ACK with ack = server seq was delivered to a server in SYN_RCVD, which
\* is now ESTABLISHED.
C19_Witness ==
    \E t \in fired :
        /\ t.packet.flag = "ACK" /\ t.packet.destination = "SERVER"
        /\ t.server.connectionState = "SYN_RCVD"
        /\ t.packet.ack = t.server.seq
        /\ processed[t.packet.id] = 1
        /\ server.connectionState = "ESTABLISHED"

\* The arrival handler alone on an RST (the row C20 is about; nothing in the
\* program sends an RST): no branch names the flag, the server keeps its
\* connectionState, seq, lastAckReceived and sessionId.
RstLeavesServer ==
    [][(Delivers /\ Head(timers).packet.destination = "SERVER"
            /\ Head(timers).packet.flag = "RST")
          => Protocol(server') = Protocol(server)]_vars

----------------------------------------------------------------------------
\* C21: the delivery of a FIN to a server in ESTABLISHED makes the server
\* CLOSED with sessionId null and puts no packet in flight: no packet and no
\* timer is added.
C21_FinClosesWithoutReply ==
    [][(Delivers /\ Head(timers).packet.destination = "SERVER"
            /\ Head(timers).packet.flag = "FIN"
            /\ server.connectionState = "ESTABLISHED")
          => /\ server'.connectionState = "CLOSED"
             /\ server'.sessionId = null
             /\ Ids(packets') \subseteq Ids(packets)
             /\ timers' = Tail(timers)
             /\ nextId' = nextId]_vars

\* A FIN was delivered to a server in ESTABLISHED that held a session; the
\* server is CLOSED without a session and no other packet has appeared.
C21_Witness ==
    \E t \in fired :
        /\ t.packet.flag = "FIN" /\ t.packet.destination = "SERVER"
        /\ t.server.connectionState = "ESTABLISHED"
        /\ t.server.sessionId # null
        /\ processed[t.packet.id] = 1
        /\ server.connectionState = "CLOSED"
        /\ server.sessionId = null
        /\ Ids(packets) \subseteq {t.packet.id}
        /\ timers = <<>>

----------------------------------------------------------------------------
----------------------------------------------------------------------------
\* C24: the user acts finitely often (at most MaxPackets sends); with the
\* timers firing, the in-flight set eventually is empty and stays empty, and
\* no timer stays pending.
C24_Quiescence == <>[](packets = <<>> /\ timers = <<>>)

----------------------------------------------------------------------------
\* C25: no step takes the server back to LISTEN, and a server that is CLOSED
\* stays CLOSED: no later connect() and no delivery makes it SYN_RCVD or
\* ESTABLISHED again.
C25_ServerNeverListensAgain ==
    /\ [][server.connectionState # "LISTEN" => server'.connectionState # "LISTEN"]_vars
    /\ [][server.connectionState = "CLOSED" => server'.connectionState = "CLOSED"]_vars

\* A FIN has closed the server; a connect() made after that has had its SYN
\* delivered, and the server is still CLOSED.
C25_Witness ==
    /\ server.connectionState = "CLOSED"
    /\ \E t \in fired :
          /\ t.packet.flag = "SYN"
          /\ t.server.connectionState = "CLOSED"
          /\ processed[t.packet.id] = 1
    /\ \E t \in fired : t.packet.flag = "FIN" /\ processed[t.packet.id] = 1

----------------------------------------------------------------------------
\* C26: disconnect(), in whatever state the client is, puts exactly one FIN
\* of the client in flight, adds 1 to the client's seq and leaves the client
\* CLOSED with sessionId null and its lastAckReceived as it was; the server
\* is not touched.
C26_DisconnectHasNoGuard ==
    [][DisconnectCall =>
          /\ client'.connectionState = "CLOSED"
          /\ client'.sessionId = null
          /\ client'.seq = client.seq + 1
          /\ client'.lastAckReceived = client.lastAckReceived
          /\ Len(packets') = Len(packets) + 1
          /\ SubSeq(packets', 1, Len(packets)) = packets
          /\ packets'[Len(packets')].flag = "FIN"
          /\ packets'[Len(packets')].source = "CLIENT"
          /\ server' = server]_vars

\* handleDisconnect has run once, on a CLOSED client: its FIN is in flight,
\* the client is CLOSED without a session, its seq is one more and its
\* lastAckReceived what it was.
C26_Witness ==
    /\ hist.disconnects = 1
    /\ \E i \in 1..Len(timers) :
          /\ timers[i].packet.flag = "FIN"
          /\ timers[i].packet.id \in Ids(packets)
          /\ timers[i].client.connectionState = "CLOSED"
          /\ client.seq = timers[i].client.seq + 1
          /\ client.lastAckReceived = timers[i].client.lastAckReceived
    /\ client.connectionState = "CLOSED"
    /\ client.sessionId = null

----------------------------------------------------------------------------
\* C9: disconnect() on an ESTABLISHED client puts exactly one FIN in flight
\* and in the same step makes the client CLOSED with sessionId null; the
\* client stays so, whatever happens to the FIN, until the next connect().
C9_DisconnectFromEstablished ==
    /\ [][(Disconnect /\ client.connectionState = "ESTABLISHED") =>
             /\ client'.connectionState = "CLOSED"
             /\ client'.sessionId = null
             /\ Cardinality(SentInStep) = 1
             /\ \A p \in SentInStep : p.flag = "FIN" /\ p.id \in Ids(packets')]_vars
    /\ []((hist.disconnects >= 1 /\ hist.connects = 0)
             => (client.connectionState = "CLOSED" /\ client.sessionId = null))

\* disconnect() has run once, on the client that held the session; its FIN
\* was dropped in flight and the FIN's timer has fired; the client is CLOSED
\* without a session.
C9_Witness ==
    /\ hist.disconnects = 1
    /\ hist.connects = 0
    /\ \E t \in fired :
          /\ t.packet.flag = "FIN"
          /\ t.packet.sessionId # undefined
          /\ t.client.connectionState = "ESTABLISHED"
          /\ t.packet.id \in droppedInFlight
    /\ client.connectionState = "CLOSED"
    /\ client.sessionId = null

====
